---- MODULE Spec2Model ----
(***************************************************************************)
(* csvlens: the view coordinator RowsView (src/src/view.rs) as a state     *)
(* machine.  The indexed reader (csv.rs) and the Finder (find.rs) are not  *)
(* part of the sources at hand; they are modelled from their contracts.    *)
(***************************************************************************)
EXTENDS Integers, Sequences, FiniteSets, TLC

(* ------------------------------ bounds --------------------------------- *)
\* largest number of data rows of the opened file
MaxRows == 2
\* largest window height handed to RowsView::new / set_num_rows
MaxNumRows == 2
\* largest number of header fields handed to ColumnsFilter::new
MaxHeaders == 3
\* largest number of characters of a --delimiter value
MaxDelimiterLen == 2

\* largest value of the unsigned word standing for u64/usize, scaled down:
\* it holds every row number of the file and two values beyond
U64Max == MaxRows + 2

(* ------------------------------ helpers -------------------------------- *)
None == <<>>

Some(x) == <<x>>

IsSome(o) == o # <<>>

min(a, b) == IF a <= b THEN a ELSE b

saturating_add(a, b) == IF a + b > U64Max THEN U64Max ELSE a + b

saturating_sub(a, b) == IF a >= b THEN a - b ELSE 0

\* the row numbers of a batch of rows
RowNumbers(rs) == [k \in 1..Len(rs) |-> rs[k].row_number]

(* ------------------------------ state ---------------------------------- *)
VARIABLES
    file_rows,       \* reader: number of data rows of the file
    total_exact,     \* reader: get_total_line_numbers()
    total_approx,    \* reader: get_total_line_numbers_approx()
    rows,            \* RowsView.rows
    num_rows,        \* RowsView.num_rows
    rows_from,       \* RowsView.rows_from
    filter,          \* RowsView.filter : Option<RowsFilter>
    columns_filter,  \* RowsView.columns_filter : Option<ColumnsFilter>
    selected,        \* RowsView.selected : Option<u64>
    elapsed,         \* RowsView.elapsed : Option<u128>
    given_finder,    \* history: the Finder last handed to set_filter, None once reset
    queried,         \* history: the last operation queried the reader
    arith,           \* history: outcome of the last operation's arithmetic
    last,            \* history: the last operation, its argument, the filter total before it
    pc,              \* position of the process in run_csvlens / main
    args_delimiter,  \* Args.delimiter : Option<String>, a string as its code points
    delimiter,       \* run_csvlens: the parsed delimiter, Option<u8>
    loop_result,     \* run_csvlens: result of app.main_loop
    result,          \* the value run_csvlens returned to main
    printed,         \* main printed the error
    exit_code,       \* exit status of the process
    calls,           \* history: the calls run_csvlens has executed
    raw_enabled,     \* history: enable_raw_mode returned Ok
    cf_pattern,      \* ColumnsFilter::new: pattern argument
    cf_headers,      \* ColumnsFilter::new: headers argument
    cf_result        \* ColumnsFilter::new: the value returned

\* the view, its reader and their history
View == <<file_rows, total_exact, total_approx, rows, num_rows, rows_from,
          filter, columns_filter, selected, elapsed,
          given_finder, queried, arith, last>>

\* the process around the view
Process == <<pc, args_delimiter, delimiter, loop_result, result, printed,
             exit_code, calls, raw_enabled>>

\* one call of ColumnsFilter::new
FilterCall == <<cf_pattern, cf_headers, cf_result>>

vars == <<View, Process, FilterCall>>

(* ------------------------------ reader --------------------------------- *)
\* header row of the file
Headers == <<"a", "b">>

\* content of the field in column c (0-based) of row r
Cell(r, c) == r * Len(Headers) + c

FileRow(r) == [row_number |-> r,
               fields |-> [k \in 1..Len(Headers) |-> Cell(r, k - 1)]]

get_rows(from, num) ==
    LET n == IF from >= file_rows THEN 0 ELSE min(num, file_rows - from)
    IN  [k \in 1..n |-> FileRow(from + k - 1)]

get_rows_for_indices(indices) ==
    [k \in 1..Len(indices) |-> FileRow(indices[k])]

Row_subset(row, indices) ==
    [row_number |-> row.row_number,
     fields |-> [k \in 1..Len(indices) |-> row.fields[indices[k] + 1]]]

(* ------------------------------ finder --------------------------------- *)
\* a Finder is the ascending sequence of row numbers it has matched so far
SortedSeq(S) ==
    CHOOSE s \in [1..Cardinality(S) -> S] :
        \A i, j \in 1..Cardinality(S) : i < j => s[i] < s[j]

Finders == {SortedSeq(S) : S \in SUBSET (0..(file_rows - 1))}

count(finder) == Len(finder)

get_subset_found(finder, from, num) ==
    LET hi == min(from + num, Len(finder))
    IN  IF from >= hi THEN <<>>
        ELSE [k \in 1..(hi - from) |-> finder[from + k]]

(* ------------------------------ filters -------------------------------- *)
\* RowsFilter::new that windows the matches from the first one
RowsFilter_new_from_zero(finder, rows_from_, num_rows_) ==
    [indices |-> get_subset_found(finder, 0, num_rows_),
     total |-> count(finder)]

RowsFilter_new(finder, rows_from_, num_rows_) ==
    [indices |-> get_subset_found(finder, rows_from_, num_rows_),
     total |-> count(finder)]

\* a pattern is the set of header names it matches
Patterns == SUBSET {Headers[k] : k \in 1..Len(Headers)}

RECURSIVE MatchIndices(_, _, _)
MatchIndices(pattern, headers, i) ==
    IF i >= Len(headers) THEN <<>>
    ELSE (IF headers[i + 1] \in pattern THEN <<i>> ELSE <<>>)
         \o MatchIndices(pattern, headers, i + 1)

\* ColumnsFilter::new without the fallback to all columns on no match
ColumnsFilter_new_no_fallback(pattern, headers) ==
    LET matched == MatchIndices(pattern, headers, 0)
    IN  [pattern |-> pattern,
         indices |-> matched,
         filtered_headers |-> [k \in 1..Len(matched) |-> headers[matched[k] + 1]],
         num_columns_before_filter |-> Len(headers),
         disabled_because_no_match |-> FALSE]

ColumnsFilter_new(pattern, headers) ==
    LET matched == MatchIndices(pattern, headers, 0)
        indices == IF matched = <<>> THEN [k \in 1..Len(headers) |-> k - 1]
                   ELSE matched
    IN  [pattern |-> pattern,
         indices |-> indices,
         filtered_headers |-> [k \in 1..Len(indices) |-> headers[indices[k] + 1]],
         num_columns_before_filter |-> Len(headers),
         disabled_because_no_match |-> (matched = <<>>)]

(* ------------------------------ RowsView ------------------------------- *)
\* the view as one value, so that the methods are functions of it
Self == [rows |-> rows, num_rows |-> num_rows, rows_from |-> rows_from,
         filter |-> filter, columns_filter |-> columns_filter,
         selected |-> selected, elapsed |-> elapsed, queried |-> FALSE]

RowsView_new(num_rows_) ==
    [rows |-> get_rows(0, num_rows_), num_rows |-> num_rows_, rows_from |-> 0,
     filter |-> None, columns_filter |-> None,
     selected |-> Some(0), elapsed |-> None, queried |-> TRUE]

headers(v) ==
    IF IsSome(v.columns_filter) THEN v.columns_filter[1].filtered_headers
    ELSE Headers

\* set_selected that stores the cursor without clamping it to the batch
set_selected_unclamped(v, sel) == [v EXCEPT !.selected = Some(sel)]

set_selected(v, sel) ==
    [v EXCEPT !.selected = Some(min(sel, saturating_sub(Len(v.rows), 1)))]

reset_selected(v) == [v EXCEPT !.selected = None]

\* increase_selected that re-stores the cursor without adding 1
increase_selected_same(v) ==
    IF IsSome(v.selected) THEN set_selected(v, v.selected[1])
    ELSE v

increase_selected(v) ==
    IF IsSome(v.selected) THEN set_selected(v, saturating_add(v.selected[1], 1))
    ELSE v

decrease_selected(v) ==
    IF IsSome(v.selected) THEN set_selected(v, saturating_sub(v.selected[1], 1))
    ELSE v

select_top(v) == set_selected(v, 0)

\* select_bottom that puts the cursor on the first row
select_bottom_first(v) == set_selected(v, 0)

select_bottom(v) == set_selected(v, saturating_sub(Len(v.rows), 1))

selected_offset(v) ==
    IF IsSome(v.selected) THEN Some(saturating_add(v.selected[1], v.rows_from))
    ELSE None

\* in_view that leaves out the first row of the window
in_view_exclusive(v, row_index) ==
    LET last_row == saturating_add(v.rows_from, v.num_rows)
    IN  row_index > v.rows_from /\ row_index < last_row

in_view(v, row_index) ==
    LET last_row == saturating_add(v.rows_from, v.num_rows)
    IN  row_index >= v.rows_from /\ row_index < last_row

get_total(v) ==
    IF IsSome(v.filter) THEN Some(v.filter[1].total)
    ELSE IF IsSome(total_exact) THEN total_exact
    ELSE IF IsSome(total_approx) THEN total_approx
    ELSE None

bottom_rows_from(v) ==
    IF IsSome(get_total(v))
    THEN Some(saturating_sub(get_total(v)[1], v.num_rows))
    ELSE None

\* start.elapsed().as_micros(): some number of microseconds
Measured == "micros"

\* subset_columns that leaves every row with all its fields
subset_columns_all(rs, indices) == rs

subset_columns(rs, indices) ==
    [k \in 1..Len(rs) |-> Row_subset(rs[k], indices)]

\* the measured latency of the fetch is abstracted to the one value Measured
do_get_rows(v) ==
    LET fetched == IF IsSome(v.filter)
                   THEN get_rows_for_indices(v.filter[1].indices)
                   ELSE get_rows(v.rows_from, v.num_rows)
        projected == IF IsSome(v.columns_filter)
                     THEN subset_columns(fetched, v.columns_filter[1].indices)
                     ELSE fetched
        w == [v EXCEPT !.rows = projected, !.elapsed = Some(Measured), !.queried = TRUE]
    IN  IF IsSome(w.selected) THEN set_selected(w, w.selected[1]) ELSE w

set_num_rows(v, n) ==
    IF n = v.num_rows THEN v
    ELSE do_get_rows([v EXCEPT !.num_rows = n])

\* set_filter that decides the reload on the totals instead of the indices
set_filter_by_total(v, finder) ==
    LET new_filter == RowsFilter_new(finder, v.rows_from, v.num_rows)
        needs_reload == ~(IsSome(v.filter)
                          /\ v.filter[1].total = new_filter.total)
        w == [v EXCEPT !.filter = Some(new_filter)]
    IN  IF needs_reload THEN do_get_rows(w) ELSE w

\* set_filter that reloads on every call
set_filter_always_reload(v, finder) ==
    do_get_rows([v EXCEPT !.filter =
                    Some(RowsFilter_new(finder, v.rows_from, v.num_rows))])

set_filter(v, finder) ==
    LET new_filter == RowsFilter_new(finder, v.rows_from, v.num_rows)
        needs_reload == ~(IsSome(v.filter)
                          /\ v.filter[1].indices = new_filter.indices)
        w == [v EXCEPT !.filter = Some(new_filter)]
    IN  IF needs_reload THEN do_get_rows(w) ELSE w

is_filter(v) == IsSome(v.filter)

reset_filter(v) ==
    IF ~is_filter(v) THEN v
    ELSE do_get_rows([v EXCEPT !.filter = None])

set_columns_filter(v, target) ==
    do_get_rows([v EXCEPT !.columns_filter = Some(ColumnsFilter_new(target, Headers))])

reset_columns_filter(v) ==
    do_get_rows([v EXCEPT !.columns_filter = None])

\* set_rows_from that does not clamp to the bottom
set_rows_from_unclamped(v, rows_from_) ==
    IF rows_from_ = v.rows_from THEN v
    ELSE do_get_rows([v EXCEPT !.rows_from = rows_from_])

\* set_rows_from without the early return on an unchanged offset
set_rows_from_always_fetch(v, rows_from_) ==
    LET rf == IF IsSome(bottom_rows_from(v))
              THEN min(rows_from_, bottom_rows_from(v)[1])
              ELSE rows_from_
    IN  do_get_rows([v EXCEPT !.rows_from = rf])

set_rows_from(v, rows_from_) ==
    LET rf == IF IsSome(bottom_rows_from(v))
              THEN min(rows_from_, bottom_rows_from(v)[1])
              ELSE rows_from_
    IN  IF rf = v.rows_from THEN v
        ELSE do_get_rows([v EXCEPT !.rows_from = rf])

\* increase_rows_from that re-applies the current window start
increase_rows_from_stay(v, delta) ==
    set_rows_from(v, v.rows_from)

increase_rows_from(v, delta) ==
    set_rows_from(v, saturating_add(v.rows_from, delta))

decrease_rows_from(v, delta) ==
    set_rows_from(v, saturating_sub(v.rows_from, delta))

\* num_rows - 1 of ScrollDown, as the release build computes it
wrapping_sub(a, b) == (a - b) % (U64Max + 1)

\* the arithmetic of the directive leaves the range of the word
Overflows(v, control) ==
    control.kind = "ScrollDown" /\ IsSome(v.selected) /\ v.num_rows = 0

handle_control(v, control) ==
    CASE control.kind = "ScrollDown" ->
            IF IsSome(v.selected)
            THEN IF v.selected[1] = wrapping_sub(v.num_rows, 1)
                 THEN increase_rows_from(v, 1)
                 ELSE increase_selected(v)
            ELSE increase_rows_from(v, 1)
      [] control.kind = "ScrollPageDown" ->
            LET w == increase_rows_from(v, v.num_rows)
            IN  IF IsSome(w.selected) THEN select_top(w) ELSE w
      [] control.kind = "ScrollUp" ->
            IF IsSome(v.selected)
            THEN IF v.selected[1] = 0
                 THEN decrease_rows_from(v, 1)
                 ELSE decrease_selected(v)
            ELSE decrease_rows_from(v, 1)
      [] control.kind = "ScrollPageUp" ->
            LET w == decrease_rows_from(v, v.num_rows)
            IN  IF IsSome(w.selected) THEN select_top(w) ELSE w
      [] control.kind = "ScrollTop" ->
            LET w == set_rows_from(v, 0)
            IN  IF IsSome(w.selected) THEN select_top(w) ELSE w
      [] control.kind = "ScrollBottom" ->
            LET w == IF IsSome(get_total(v))
                     THEN set_rows_from(v, saturating_sub(get_total(v)[1], v.num_rows))
                     ELSE v
            IN  IF IsSome(w.selected) THEN select_bottom(w) ELSE w
      [] control.kind = "ScrollTo" ->
            LET n0 == saturating_sub(control.n, 1)
                rf == IF IsSome(bottom_rows_from(v))
                      THEN min(n0, bottom_rows_from(v)[1])
                      ELSE n0
                w == set_rows_from(v, rf)
            IN  IF IsSome(w.selected) THEN select_top(w) ELSE w
      [] OTHER -> v

(* ------------------------------ inputs --------------------------------- *)
\* row offsets and line numbers a caller passes: any value of the word
Offsets == 0..U64Max

Heights == 0..MaxNumRows

SimpleKinds == {"ScrollDown", "ScrollPageDown", "ScrollUp", "ScrollPageUp",
                "ScrollTop", "ScrollBottom", "Nothing"}

(* ------------------------------ actions -------------------------------- *)
Commit(v) ==
    /\ rows' = v.rows
    /\ num_rows' = v.num_rows
    /\ rows_from' = v.rows_from
    /\ filter' = v.filter
    /\ columns_filter' = v.columns_filter
    /\ selected' = v.selected
    /\ elapsed' = v.elapsed
    /\ queried' = v.queried

Reader == <<file_rows, total_exact, total_approx>>

Running == arith # "panicked"

\* old_total: the stored filter's total before a set_filter call, None otherwise
Called(op, arg) ==
    last' = [op |-> op, arg |-> arg,
             old_total |-> IF op = "set_filter" /\ IsSome(filter)
                           THEN Some(filter[1].total) ELSE None]

\* the view after RowsView::new over a file not yet indexed
InitView ==
    /\ file_rows \in 0..MaxRows
    /\ total_exact = None
    /\ total_approx = None
    /\ \E h \in Heights :
         LET v == RowsView_new(h)
         IN  /\ rows = v.rows
             /\ num_rows = v.num_rows
             /\ rows_from = v.rows_from
             /\ filter = v.filter
             /\ columns_filter = v.columns_filter
             /\ selected = v.selected
             /\ elapsed = v.elapsed
             /\ queried = v.queried
    /\ given_finder = None
    /\ arith = "ok"
    /\ last = [op |-> "new", arg |-> <<>>, old_total |-> None]

\* the process while the view is in use: run_csvlens is inside app.main_loop
InMainLoop ==
    /\ pc = "main_loop"
    /\ args_delimiter = None
    /\ delimiter = None
    /\ loop_result = None
    /\ result = None
    /\ printed = FALSE
    /\ exit_code = None
    /\ calls = {"parse_delimiter", "SeekableFile::new", "App::new",
                "enable_raw_mode", "EnterAlternateScreen", "Terminal::new"}
    /\ raw_enabled = TRUE

\* no call of ColumnsFilter::new under observation
NoFilterCall ==
    /\ cf_pattern = {}
    /\ cf_headers = <<>>
    /\ cf_result = None

Init ==
    /\ InitView
    /\ InMainLoop
    /\ NoFilterCall

\* the extrapolated total: one row short, exact, or one row over
Estimates == {n \in {file_rows - 1, file_rows, file_rows + 1} : n >= 0}

\* the index worker scans another chunk: an estimate of the total is available
IndexProgress ==
    /\ Running
    /\ total_exact = None
    /\ \E a \in Estimates : total_approx' = Some(a)
    /\ Called("index", <<>>)
    /\ UNCHANGED <<Process, FilterCall>>
    /\ queried' = FALSE
    /\ arith' = "ok"
    /\ UNCHANGED <<file_rows, total_exact, rows, num_rows, rows_from, filter,
                   columns_filter, selected, elapsed, given_finder>>

\* the index worker reaches the end of the file: the total is exact
IndexFinish ==
    /\ Running
    /\ total_exact = None
    /\ total_exact' = Some(file_rows)
    /\ total_approx' = Some(file_rows)
    /\ Called("index", <<>>)
    /\ UNCHANGED <<Process, FilterCall>>
    /\ queried' = FALSE
    /\ arith' = "ok"
    /\ UNCHANGED <<file_rows, rows, num_rows, rows_from, filter,
                   columns_filter, selected, elapsed, given_finder>>

SetNumRows ==
    /\ Running
    /\ \E n \in Heights :
         /\ Commit(set_num_rows(Self, n))
         /\ Called("set_num_rows", <<n>>)
         /\ UNCHANGED <<Process, FilterCall>>
    /\ arith' = "ok"
    /\ UNCHANGED <<Reader, given_finder>>

SetFilter ==
    /\ Running
    /\ \E f \in Finders :
         /\ Commit(set_filter(Self, f))
         /\ given_finder' = Some(f)
    /\ Called("set_filter", <<>>)
    /\ UNCHANGED <<Process, FilterCall>>
    /\ arith' = "ok"
    /\ UNCHANGED Reader

ResetFilter ==
    /\ Running
    /\ Commit(reset_filter(Self))
    /\ given_finder' = None
    /\ Called("reset_filter", <<>>)
    /\ UNCHANGED <<Process, FilterCall>>
    /\ arith' = "ok"
    /\ UNCHANGED Reader

SetColumnsFilter ==
    /\ Running
    /\ \E target \in Patterns :
         Commit(set_columns_filter(Self, target))
    /\ Called("set_columns_filter", <<>>)
    /\ UNCHANGED <<Process, FilterCall>>
    /\ arith' = "ok"
    /\ UNCHANGED <<Reader, given_finder>>

ResetColumnsFilter ==
    /\ Running
    /\ Commit(reset_columns_filter(Self))
    /\ Called("reset_columns_filter", <<>>)
    /\ UNCHANGED <<Process, FilterCall>>
    /\ arith' = "ok"
    /\ UNCHANGED <<Reader, given_finder>>

SetRowsFrom ==
    /\ Running
    /\ \E n \in Offsets :
         /\ Commit(set_rows_from(Self, n))
         /\ Called("set_rows_from", <<n>>)
         /\ UNCHANGED <<Process, FilterCall>>
    /\ arith' = "ok"
    /\ UNCHANGED <<Reader, given_finder>>

ResetSelected ==
    /\ Running
    /\ Commit(reset_selected(Self))
    /\ Called("reset_selected", <<>>)
    /\ UNCHANGED <<Process, FilterCall>>
    /\ arith' = "ok"
    /\ UNCHANGED <<Reader, given_finder>>

\* a directive whose arithmetic stays within the word
HandleControl ==
    /\ Running
    /\ \E control \in {[kind |-> k, n |-> 0] : k \in SimpleKinds}
                      \cup {[kind |-> "ScrollTo", n |-> n] : n \in Offsets} :
         /\ ~Overflows(Self, control)
         /\ Commit(handle_control(Self, control))
         /\ Called(control.kind, <<control.n>>)
         /\ UNCHANGED <<Process, FilterCall>>
    /\ arith' = "ok"
    /\ UNCHANGED <<Reader, given_finder>>

\* ScrollDown with a cursor and num_rows = 0: num_rows - 1 leaves the word.
\* A build with overflow checks panics there; one without wraps and goes on.
HandleControlOverflow ==
    /\ Running
    /\ Overflows(Self, [kind |-> "ScrollDown", n |-> 0])
    /\ Called("ScrollDown", <<0>>)
    /\ UNCHANGED <<Process, FilterCall>>
    /\ \/ /\ arith' = "panicked"
          /\ queried' = FALSE
          /\ UNCHANGED <<rows, num_rows, rows_from, filter, columns_filter,
                         selected, elapsed>>
       \/ /\ arith' = "wrapped"
          /\ Commit(handle_control(Self, [kind |-> "ScrollDown", n |-> 0]))
    /\ UNCHANGED <<Reader, given_finder>>

\* the view without column selection
Next ==
    \/ IndexProgress
    \/ IndexFinish
    \/ SetNumRows
    \/ SetFilter
    \/ ResetFilter
    \/ SetRowsFrom
    \/ ResetSelected
    \/ HandleControl
    \/ HandleControlOverflow

Spec == Init /\ [][Next]_vars

TypeOK ==
    /\ file_rows \in 0..MaxRows
    /\ num_rows \in 0..U64Max
    /\ rows_from \in 0..U64Max
    /\ selected = None \/ selected[1] \in 0..U64Max
    /\ arith \in {"ok", "wrapped", "panicked"}

(* ------------------------ view with column selection -------------------- *)
\* the operations that reload or reshape the rows, in any interleaving
NextColumns ==
    \/ IndexFinish
    \/ SetNumRows
    \/ SetFilter
    \/ ResetFilter
    \/ HandleControl
    \/ HandleControlOverflow
    \/ SetColumnsFilter
    \/ ResetColumnsFilter

SpecColumns == Init /\ [][NextColumns]_vars

(* -------------------- the cursor walking down the file ------------------ *)
\* the view right after construction over a non-empty file, with a window
\* that has a height
InitScroll ==
    /\ Init
    /\ file_rows >= 1
    /\ num_rows >= 1

\* one ScrollDown directive
ScrollDown ==
    /\ Running
    /\ ~Overflows(Self, [kind |-> "ScrollDown", n |-> 0])
    /\ Commit(handle_control(Self, [kind |-> "ScrollDown", n |-> 0]))
    /\ Called("ScrollDown", <<0>>)
    /\ UNCHANGED <<Process, FilterCall>>
    /\ arith' = "ok"
    /\ UNCHANGED <<Reader, given_finder>>

\* ScrollDown issued once the index is complete
ScrollDownIndexed ==
    /\ IsSome(total_exact)
    /\ ScrollDown

\* the index worker runs to the end of the file; from then on ScrollDown is
\* issued again and again; the column selection may change at any time
NextScroll ==
    \/ IndexProgress
    \/ IndexFinish
    \/ ScrollDownIndexed
    \/ SetColumnsFilter
    \/ ResetColumnsFilter

SpecScroll ==
    /\ InitScroll
    /\ [][NextScroll]_vars
    /\ WF_vars(IndexFinish)
    /\ WF_vars(ScrollDownIndexed)

(* ------------------------- ColumnsFilter::new -------------------------- *)
\* header lists handed to ColumnsFilter::new: names may repeat
HeaderNames == {Headers[k] : k \in 1..Len(Headers)}

HeaderLists == UNION {[1..n -> HeaderNames] : n \in 0..MaxHeaders}

\* a pattern and a header list are chosen; the view is not involved
InitFilterCall ==
    /\ InitView
    /\ file_rows = 0
    /\ num_rows = 0
    /\ InMainLoop
    /\ cf_pattern \in Patterns
    /\ cf_headers \in HeaderLists
    /\ cf_result = None

NewColumnsFilter ==
    /\ cf_result = None
    /\ cf_result' = Some(ColumnsFilter_new(cf_pattern, cf_headers))
    /\ UNCHANGED <<cf_pattern, cf_headers, View, Process>>

SpecFilterCall == InitFilterCall /\ [][NewColumnsFilter]_vars

(* ------------------------------ main.rs -------------------------------- *)
Ok(x) == [ok |-> TRUE, val |-> x]

Err(e) == [ok |-> FALSE, val |-> e]

\* characters as code points: comma, tab, e-acute, pi
Chars == {44, 9, 233, 960}

is_ascii(c) == c <= 127

\* u8::try_from(char)
try_into_u8(c) == IF c <= 255 THEN Ok(c) ELSE Err("TryFromCharError")

\* the values of Args.delimiter: absent, or a string of up to MaxDelimiterLen characters
Delimiters ==
    {None} \cup {Some(str) : str \in UNION {[1..n -> Chars] : n \in 0..MaxDelimiterLen}}

\* parse_delimiter that does not look for a second character
parse_delimiter_first_char(args) ==
    IF IsSome(args.delimiter)
    THEN LET str == args.delimiter[1]
         IN  IF Len(str) = 0 THEN Err("Delimiter should not be empty")
             ELSE IF ~is_ascii(str[1])
                  THEN Err("Delimiter should be within the ASCII range")
                  ELSE LET b == try_into_u8(str[1])
                       IN  IF b.ok THEN Ok(Some(b.val)) ELSE b
    ELSE Ok(None)

parse_delimiter(args) ==
    IF IsSome(args.delimiter)
    THEN LET str == args.delimiter[1]
         IN  IF Len(str) = 0 THEN Err("Delimiter should not be empty")
             ELSE IF ~is_ascii(str[1])
                  THEN Err("Delimiter should be within the ASCII range")
                  ELSE IF Len(str) > 1
                       THEN Err("Delimiter should be exactly one character")
                       ELSE LET b == try_into_u8(str[1])
                            IN  IF b.ok THEN Ok(Some(b.val)) ELSE b
    ELSE Ok(None)

\* the process starts: Args::parse has read the command line
InitMain ==
    /\ InitView
    /\ file_rows = 0
    /\ num_rows = 0
    /\ NoFilterCall
    /\ pc = "parse_delimiter"
    /\ args_delimiter \in Delimiters
    /\ delimiter = None
    /\ loop_result = None
    /\ result = None
    /\ printed = FALSE
    /\ exit_code = None
    /\ calls = {}
    /\ raw_enabled = FALSE

\* a call followed by `?`: Ok goes on to next, Err returns it from run_csvlens
Try(name, next) ==
    /\ pc = name
    /\ calls' = calls \cup {name}
    /\ \/ /\ pc' = next
          /\ result' = result
       \/ /\ pc' = "main"
          /\ result' = Some(Err(name))

ParseDelimiter ==
    /\ pc = "parse_delimiter"
    /\ calls' = calls \cup {"parse_delimiter"}
    /\ LET r == parse_delimiter([delimiter |-> args_delimiter])
       IN  IF r.ok
           THEN /\ delimiter' = r.val
                /\ pc' = "SeekableFile::new"
                /\ result' = result
           ELSE /\ delimiter' = delimiter
                /\ pc' = "main"
                /\ result' = Some(r)
    /\ UNCHANGED <<args_delimiter, loop_result, printed, exit_code,
                   raw_enabled, View, FilterCall>>

SeekableFileNew ==
    /\ Try("SeekableFile::new", "App::new")
    /\ UNCHANGED <<args_delimiter, delimiter, loop_result, printed, exit_code,
                   raw_enabled, View, FilterCall>>

AppNew ==
    /\ Try("App::new", "enable_raw_mode")
    /\ UNCHANGED <<args_delimiter, delimiter, loop_result, printed, exit_code,
                   raw_enabled, View, FilterCall>>

EnableRawMode ==
    /\ Try("enable_raw_mode", "EnterAlternateScreen")
    /\ raw_enabled' = (pc' = "EnterAlternateScreen")
    /\ UNCHANGED <<args_delimiter, delimiter, loop_result, printed, exit_code,
                   View, FilterCall>>

EnterAlternateScreen ==
    /\ Try("EnterAlternateScreen", "Terminal::new")
    /\ UNCHANGED <<args_delimiter, delimiter, loop_result, printed, exit_code,
                   raw_enabled, View, FilterCall>>

TerminalNew ==
    /\ Try("Terminal::new", "main_loop")
    /\ UNCHANGED <<args_delimiter, delimiter, loop_result, printed, exit_code,
                   raw_enabled, View, FilterCall>>

\* app.main_loop returns; its result is kept, not propagated with `?`
MainLoop ==
    /\ pc = "main_loop"
    /\ calls' = calls \cup {"main_loop"}
    /\ \E r \in {Ok("unit"), Err("main_loop")} : loop_result' = Some(r)
    /\ pc' = "disable_raw_mode"
    /\ UNCHANGED <<args_delimiter, delimiter, result, printed, exit_code,
                   raw_enabled, View, FilterCall>>

DisableRawMode ==
    /\ Try("disable_raw_mode", "LeaveAlternateScreen")
    /\ UNCHANGED <<args_delimiter, delimiter, loop_result, printed, exit_code,
                   raw_enabled, View, FilterCall>>

\* the last statement: on Ok run_csvlens returns the result of main_loop
LeaveAlternateScreen ==
    /\ pc = "LeaveAlternateScreen"
    /\ calls' = calls \cup {"LeaveAlternateScreen"}
    /\ pc' = "main"
    /\ \/ result' = loop_result
       \/ result' = Some(Err("LeaveAlternateScreen"))
    /\ UNCHANGED <<args_delimiter, delimiter, loop_result, printed, exit_code,
                   raw_enabled, View, FilterCall>>

\* main: on Err print it and exit(1), otherwise return
Main ==
    /\ pc = "main"
    /\ pc' = "exited"
    /\ IF result[1].ok
       THEN /\ printed' = printed
            /\ exit_code' = Some(0)
       ELSE /\ printed' = TRUE
            /\ exit_code' = Some(1)
    /\ UNCHANGED <<args_delimiter, delimiter, loop_result, result, calls,
                   raw_enabled, View, FilterCall>>

NextMain ==
    \/ ParseDelimiter
    \/ SeekableFileNew
    \/ AppNew
    \/ EnableRawMode
    \/ EnterAlternateScreen
    \/ TerminalNew
    \/ MainLoop
    \/ DisableRawMode
    \/ LeaveAlternateScreen
    \/ Main

\* the process runs on its own thread; only main_loop waits for the user
SpecMain ==
    /\ InitMain
    /\ [][NextMain]_vars
    /\ WF_vars(ParseDelimiter)
    /\ WF_vars(Main)

(* ------------------------------ claims --------------------------------- *)
\* the window the view should show: the rows found by the given Finder at
\* positions rows_from .. rows_from+num_rows-1, or the rows numbered so
Materialization ==
    LET fetched == IF IsSome(filter)
                   THEN get_rows_for_indices(
                            get_subset_found(given_finder[1], rows_from, num_rows))
                   ELSE get_rows(rows_from, num_rows)
    IN  IF IsSome(columns_filter)
        THEN subset_columns(fetched, columns_filter[1].indices)
        ELSE fetched

Total == get_total(Self)

Bottom == saturating_sub(Total[1], num_rows)

ScrollKinds == {"ScrollDown", "ScrollPageDown", "ScrollUp", "ScrollPageUp",
                "ScrollTop", "ScrollBottom", "ScrollTo"}

\* C1 (as stated): whenever selected is Some(i), i < rows.len(), also for a
\* file without data rows and for a window of height 0.
C1_SelectedBelowLen ==
    IsSome(selected) => selected[1] < Len(rows)

\* C1 (amended): whenever selected is Some(i), i <= rows.len() - 1 with the
\* subtraction saturating at 0: i < rows.len() when rows is not empty, and
\* i = 0 when rows is empty.
C1_SelectedClamped ==
    IsSome(selected) => selected[1] <= saturating_sub(Len(rows), 1)

\* C1 witness: a ScrollDown moved the window, the batch shrank to one row at
\* the end of the data and the cursor was clamped from 1 to 0.
C1_Witness ==
    /\ last.op = "ScrollDown"
    /\ queried
    /\ num_rows = 2
    /\ Len(rows) = 1
    /\ selected = Some(0)

\* C2: whenever a total is known, rows_from <= max(0, total - num_rows).
C2_RowsFromBounded ==
    IsSome(Total) => rows_from <= Bottom

\* C3: rows is exactly the materialization of [rows_from, rows_from+num_rows)
\* under the active filters: the rows numbered rows_from, rows_from+1, ...
\* without a row filter, the rows at the rows_from-th .. matches of the
\* Finder with one.
C3_RowsAreWindow ==
    rows = Materialization

\* C4: with a row filter active the row numbers of rows are the stored
\* filter's indices, in order; right after set_filter the stored filter is
\* the snapshot of the Finder handed in (its windowed indices, its count).
C4_FilterIsShown ==
    /\ IsSome(filter) => RowNumbers(rows) = filter[1].indices
    /\ last.op = "set_filter" =>
         filter = Some([indices |-> get_subset_found(given_finder[1], rows_from, num_rows),
                        total |-> count(given_finder[1])])

\* C4 witness: a Finder was swapped in over an earlier filter, the window was
\* reloaded and shows the rows of the new snapshot.
C4_Witness ==
    /\ last.op = "set_filter"
    /\ IsSome(last.old_total)
    /\ queried
    /\ rows # <<>>
    /\ RowNumbers(rows) = filter[1].indices

\* C5: after set_rows_from(n), rows_from is min(n, total - num_rows) with the
\* subtraction saturating at 0 when a total is known, and n when none is.
C5_Clamping ==
    last.op = "set_rows_from" =>
        rows_from = IF IsSome(Total) THEN min(last.arg[1], Bottom)
                    ELSE last.arg[1]

\* C5 witness: set_rows_from was called beyond a positive bottom and landed
\* on the bottom.
C5_Witness ==
    /\ last.op = "set_rows_from"
    /\ IsSome(Total)
    /\ Bottom > 0
    /\ last.arg[1] > Bottom
    /\ rows_from = Bottom

\* C6: set_rows_from called with the view's current rows_from changes
\* nothing: rows_from, rows, selected and elapsed stay and the reader is not
\* queried.
C6_SetRowsFromIdempotent ==
    [][(last'.op = "set_rows_from" /\ last'.arg = Some(rows_from)) =>
          /\ rows_from' = rows_from
          /\ rows' = rows
          /\ selected' = selected
          /\ elapsed' = elapsed
          /\ ~queried']_vars

\* C7: set_filter always stores the new snapshot; it queries the reader
\* exactly when no filter was stored or the new windowed indices differ from
\* the stored ones, and without a query rows and elapsed are unchanged.
C7_ReloadOnlyOnNewIndices ==
    [][last'.op = "set_filter" =>
          LET snapshot == [indices |-> get_subset_found(given_finder'[1], rows_from, num_rows),
                           total |-> count(given_finder'[1])]
          IN  /\ filter' = Some(snapshot)
              /\ queried' <=> (filter = None \/ filter[1].indices # snapshot.indices)
              /\ ~queried' => (rows' = rows /\ elapsed' = elapsed)]_vars

\* C7 witness: the Finder's count grew over the stored total and set_filter
\* did not query the reader.
C7_Witness ==
    /\ last.op = "set_filter"
    /\ ~queried
    /\ IsSome(last.old_total)
    /\ filter[1].total > last.old_total[1]
    /\ rows # <<>>

\* C8: after set_filter with a Finder whose matches are M and whose count is
\* c, rows are the rows numbered M[f], ..., M[min(f+h, |M|)-1] for
\* f = rows_from and h = num_rows, and get_total() is c.
C8_FilterWindow ==
    last.op = "set_filter" =>
        /\ RowNumbers(rows) = get_subset_found(given_finder[1], rows_from, num_rows)
        /\ Total = Some(count(given_finder[1]))

\* C8 witness: matches [1], rows_from = 0: the window shows row 1, total 1.
C8_Witness ==
    /\ last.op = "set_filter"
    /\ given_finder = Some(<<1>>)
    /\ rows_from = 0
    /\ num_rows >= 1
    /\ RowNumbers(rows) = <<1>>
    /\ Total = Some(1)

AtTop == rows_from = 0

AtBottom == IsSome(Total) /\ rows_from = Bottom

OnLastWindowRow == num_rows >= 1 /\ selected = Some(num_rows - 1)

\* the directive named by the step moves toward the boundary the view is at
TowardBoundary ==
    \/ AtTop /\ last'.op \in {"ScrollPageUp", "ScrollTop"}
    \/ AtTop /\ last'.op = "ScrollUp" /\ selected = Some(0)
    \/ AtBottom /\ last'.op \in {"ScrollPageDown", "ScrollBottom"}
    \/ AtBottom /\ last'.op = "ScrollDown" /\ OnLastWindowRow

\* C9 (as stated): a directive toward the boundary the view is at leaves
\* rows_from, rows and selected unchanged, for every cursor position.
C9_BoundaryNoOp ==
    [][TowardBoundary =>
          /\ rows_from' = rows_from
          /\ rows' = rows
          /\ selected' = selected]_vars

\* where a directive toward the boundary leaves the cursor
CursorAfter(op) ==
    IF selected = None THEN None
    ELSE IF op \in {"ScrollUp", "ScrollDown"} THEN selected
    ELSE IF op = "ScrollBottom" THEN Some(saturating_sub(Len(rows), 1))
    ELSE Some(0)

\* C9 (amended): a directive toward the boundary the view is at leaves
\* rows_from and rows unchanged and does not query the reader; ScrollUp and
\* ScrollDown leave the cursor where it is, ScrollPageUp, ScrollTop and
\* ScrollPageDown put an existing cursor on row 0 of the window and
\* ScrollBottom on its last row; applying the directive again changes
\* nothing.
C9_BoundaryKeepsWindow ==
    [][TowardBoundary =>
          /\ rows_from' = rows_from
          /\ rows' = rows
          /\ elapsed' = elapsed
          /\ ~queried'
          /\ selected' = CursorAfter(last'.op)
          /\ handle_control(Self', [kind |-> last'.op, n |-> 0]) = Self']_vars

\* C9 witness: ScrollBottom with the window already at the bottom of the
\* file: no fetch, the cursor is on the last row of the window.
C9_Witness ==
    /\ last.op = "ScrollBottom"
    /\ ~queried
    /\ filter = None
    /\ IsSome(total_exact)
    /\ AtBottom
    /\ Len(rows) >= 2
    /\ selected = Some(Len(rows) - 1)

\* C10: no addition or subtraction of handle_control leaves the range of the
\* word, for every directive and every state, window height 0 included.
C10_NoOverflow ==
    arith = "ok"

\* the offset set_rows_from stores when asked for n: n clamped to the bottom
\* when a total is known
ClampTo(n) == IF IsSome(Total) THEN min(n, Bottom) ELSE n

CursorToTop == IF selected = None THEN None ELSE Some(0)

\* C11: ScrollPageDown sets rows_from to rows_from + num_rows clamped to
\* total - num_rows, ScrollPageUp sets it to rows_from - num_rows saturating
\* at 0; each puts an existing cursor on 0 and re-materializes the window.
C11_PageScroll ==
    [][/\ last'.op = "ScrollPageDown" =>
             rows_from' = ClampTo(saturating_add(rows_from, num_rows))
       /\ last'.op = "ScrollPageUp" =>
             rows_from' = saturating_sub(rows_from, num_rows)
       /\ last'.op \in {"ScrollPageDown", "ScrollPageUp"} =>
             /\ selected' = CursorToTop
             /\ rows' = Materialization']_vars

\* the cursor is on the last row of a window of height num_rows
CursorOnLast == IsSome(selected) /\ num_rows >= 1 /\ selected[1] = num_rows - 1

Reclamped == IF selected = None THEN None
             ELSE Some(min(selected[1], saturating_sub(Len(rows'), 1)))

C13_ScrollBottom ==
    [][last'.op = "ScrollBottom" =>
          /\ IsSome(Total) => rows_from' = Bottom
          /\ Total = None => rows_from' = rows_from
          /\ IsSome(selected) =>
               /\ selected' = Some(Len(rows') - 1)
               /\ (IsSome(Total) /\ Total[1] >= 1) =>
                     selected_offset(Self') = Some(Total[1] - 1)]_vars

\* C13 (amended): after ScrollBottom rows_from is total - num_rows
\* (saturating) when a total is known and unchanged when none is; an
\* existing cursor is at rows.len() - 1 saturating at 0 (0 for an empty
\* batch); when the total is exact and >= 1, num_rows >= 1 and no row filter
\* is active it is on the last row of the data, selected_offset == total - 1.
C13_ScrollBottomClamped ==
    [][last'.op = "ScrollBottom" =>
          /\ IsSome(Total) => rows_from' = Bottom
          /\ Total = None => rows_from' = rows_from
          /\ IsSome(selected) =>
               /\ selected' = Some(saturating_sub(Len(rows'), 1))
               /\ (filter = None /\ IsSome(total_exact) /\ total_exact[1] >= 1
                   /\ num_rows >= 1) =>
                     selected_offset(Self') = Some(total_exact[1] - 1)]_vars

\* C13 witness: ScrollBottom moved the window to the end of a file whose
\* exact total is known; the cursor is on the last row of the data.
C13_Witness ==
    /\ last.op = "ScrollBottom"
    /\ queried
    /\ filter = None
    /\ IsSome(total_exact)
    /\ rows_from > 0
    /\ rows_from = Bottom
    /\ selected_offset(Self) = Some(total_exact[1] - 1)

\* C14 (as stated): after ScrollTo(n) rows_from is max(n - 1, 0) clamped to
\* the bottom when a total is known, an existing cursor is at 0, and for
\* every 1 <= n <= total the requested row n - 1 is in view.
C14_ScrollTo ==
    [][last'.op = "ScrollTo" =>
          LET n == last'.arg[1]
          IN  /\ rows_from' = ClampTo(saturating_sub(n, 1))
              /\ selected' = CursorToTop
              /\ (IsSome(Total) /\ 1 <= n /\ n <= Total[1]) =>
                    in_view(Self', n - 1)]_vars

\* C14 (amended): as stated, with the requested row n - 1 in view for every
\* 1 <= n <= total provided the window has a height, num_rows >= 1.
C14_ScrollToInWindow ==
    [][last'.op = "ScrollTo" =>
          LET n == last'.arg[1]
          IN  /\ rows_from' = ClampTo(saturating_sub(n, 1))
              /\ selected' = CursorToTop
              /\ (IsSome(Total) /\ 1 <= n /\ n <= Total[1] /\ num_rows >= 1) =>
                    in_view(Self', n - 1)]_vars

\* C14 witness: ScrollTo(2) on a 2-row file with a window of one row put
\* the window on row 1, the requested row.
C14_Witness ==
    /\ last.op = "ScrollTo"
    /\ last.arg = <<2>>
    /\ Total = Some(2)
    /\ num_rows = 1
    /\ rows_from = 1
    /\ selected = Some(0)
    /\ in_view(Self, 1)

\* The ScrollUp directive, applied to the view a ScrollDown step produced.
ThenScrollUp == handle_control(Self', [kind |-> "ScrollUp", n |-> 0])

\* The precondition of the round trip: no row filter, the exact total
\* known, a cursor present and not on the last row of the data.
BelowLastRow ==
    /\ filter = None
    /\ IsSome(total_exact)
    /\ IsSome(selected)
    /\ selected_offset(Self)[1] < total_exact[1] - 1

\* C19: with no row filter, the exact total known, a cursor present and
\* selected_offset < total - 1, ScrollDown makes selected_offset one greater
\* and a following ScrollUp restores its original value.
C19_DownUpRestores ==
    [][(last'.op = "ScrollDown" /\ BelowLastRow) =>
          /\ selected_offset(Self') = Some(selected_offset(Self)[1] + 1)
          /\ selected_offset(ThenScrollUp) = selected_offset(Self)]_vars

\* The round trip of C19 for a window that has a height.
C19_DownUpRestoresWithHeight ==
    [][(last'.op = "ScrollDown" /\ BelowLastRow /\ num_rows >= 1) =>
          /\ selected_offset(Self') = Some(selected_offset(Self)[1] + 1)
          /\ selected_offset(ThenScrollUp) = selected_offset(Self)]_vars

\* the fields a row of the window must carry: the original fields of its
\* file row at the retained indices in order, or all of them with no
\* column filter
ProjectedFields(row) ==
    IF IsSome(columns_filter)
    THEN [k \in 1..Len(columns_filter[1].indices) |->
              Cell(row.row_number, columns_filter[1].indices[k])]
    ELSE FileRow(row.row_number).fields

num_filtered == Len(columns_filter[1].indices)

\* C17: with a column filter active every row in rows has exactly
\* num_filtered() fields, the original fields at the retained indices in
\* order, and headers() has the same length; with no column filter every
\* row carries all original fields and headers() is the raw header list.
C17_ColumnProjection ==
    /\ \A k \in 1..Len(rows) : rows[k].fields = ProjectedFields(rows[k])
    /\ IsSome(columns_filter) =>
          /\ \A k \in 1..Len(rows) : Len(rows[k].fields) = num_filtered
          /\ Len(headers(Self)) = num_filtered
          /\ headers(Self) = [k \in 1..num_filtered |->
                                 Headers[columns_filter[1].indices[k] + 1]]
    /\ columns_filter = None =>
          /\ \A k \in 1..Len(rows) : Len(rows[k].fields) = Len(Headers)
          /\ headers(Self) = Headers

\* C17 witness: a column filter that keeps only the second column and a row
\* filter are both active, and a scroll step has left projected rows.
C17_Witness ==
    /\ IsSome(columns_filter)
    /\ columns_filter[1].indices = <<1>>
    /\ IsSome(filter)
    /\ last.op \in ScrollKinds
    /\ Len(rows) >= 1
    /\ rows[1].fields = <<Cell(rows[1].row_number, 1)>>

\* the cursor's absolute position, for a view that has a cursor
Offset == selected_offset(Self)[1]

\* C18: with no row filter, the exact total known, total >= 1 and
\* num_rows >= 1, repeated ScrollDown from the initial state makes
\* selected_offset take the values 0, 1, ..., total - 1 in increasing order
\* (it starts at 0 and each ScrollDown moves it by one until the last row),
\* eventually reaches total - 1 and stays there; it never exceeds total - 1.
C18_EveryRowReachable ==
    /\ IsSome(selected) /\ Offset = 0
    /\ [](IsSome(selected) /\ filter = None /\ Offset <= file_rows - 1)
    /\ [][Offset' = IF last'.op = "ScrollDown"
                    THEN min(Offset + 1, total_exact[1] - 1)
                    ELSE Offset]_vars
    /\ <>[](IsSome(total_exact) /\ Offset = total_exact[1] - 1)

\* C18 witness: ScrollDown has moved the window off the top and the cursor
\* is on the last row of a file longer than the window.
C18_Witness ==
    /\ last.op = "ScrollDown"
    /\ filter = None
    /\ num_rows >= 1
    /\ IsSome(total_exact)
    /\ total_exact[1] > num_rows
    /\ rows_from > 0
    /\ selected_offset(Self) = Some(total_exact[1] - 1)

\* the positions of the headers the pattern matches
Matching == {i \in 0..(Len(cf_headers) - 1) : cf_headers[i + 1] \in cf_pattern}

\* C15: ColumnsFilter::new(pattern, headers) equals the reference: if some
\* header matches, indices is the strictly ascending list of exactly the
\* matching positions, filtered_headers[k] = headers[indices[k]] and
\* disabled_because_no_match is false; if none matches, indices is
\* 0..len-1, filtered_headers = headers and disabled_because_no_match is
\* true; num_original() = headers.len() in both cases.
C15_ColumnsFilterNew ==
    IsSome(cf_result) =>
        LET f == cf_result[1]
        IN  /\ f.num_columns_before_filter = Len(cf_headers)
            /\ Len(f.filtered_headers) = Len(f.indices)
            /\ Matching # {} =>
                  /\ {f.indices[k] : k \in 1..Len(f.indices)} = Matching
                  /\ \A k \in 1..(Len(f.indices) - 1) : f.indices[k] < f.indices[k + 1]
                  /\ \A k \in 1..Len(f.indices) :
                        f.filtered_headers[k] = cf_headers[f.indices[k] + 1]
                  /\ ~f.disabled_because_no_match
            /\ Matching = {} =>
                  /\ f.indices = [k \in 1..Len(cf_headers) |-> k - 1]
                  /\ f.filtered_headers = cf_headers
                  /\ f.disabled_because_no_match

\* C15 witness: of the headers b, a, b the pattern matching b keeps the
\* first and the third.
C15_Witness ==
    /\ IsSome(cf_result)
    /\ cf_headers = <<"b", "a", "b">>
    /\ cf_pattern = {"b"}
    /\ cf_result[1].indices = <<0, 2>>
    /\ cf_result[1].filtered_headers = <<"b", "b">>

\* the reference for --delimiter: exactly one ASCII character
OneAsciiChar(str) == Len(str) = 1 /\ str[1] \in 0..127

Rejected == IsSome(args_delimiter) /\ ~OneAsciiChar(args_delimiter[1])

Parsed == "parse_delimiter" \in calls

ExitedWithError == pc = "exited" /\ printed /\ exit_code = Some(1)

\* C16: the --delimiter value is accepted iff it is exactly one ASCII
\* character: parse_delimiter yields that byte for it and None when the
\* option is absent; for an empty string, a non-ASCII first character or
\* more than one character run_csvlens returns the error before
\* SeekableFile::new is reached, and the process prints it and exits with
\* code 1.
C16_Delimiter ==
    /\ [](Parsed =>
            /\ ~Rejected =>
                  /\ pc = "SeekableFile::new" \/ "SeekableFile::new" \in calls
                  /\ delimiter = IF args_delimiter = None THEN None
                                 ELSE Some(args_delimiter[1][1])
            /\ Rejected =>
                  /\ calls = {"parse_delimiter"}
                  /\ pc \in {"main", "exited"}
                  /\ IsSome(result) /\ ~result[1].ok
                  /\ pc = "exited" => ExitedWithError)
    /\ Rejected ~> ExitedWithError

\* C16 witness: a two-character delimiter was rejected and the process
\* exited with code 1 without SeekableFile::new.
C16_Witness ==
    /\ args_delimiter = Some(<<44, 9>>)
    /\ ExitedWithError
    /\ "SeekableFile::new" \notin calls

\* C20: on every path through run_csvlens on which enable_raw_mode
\* succeeded, disable_raw_mode is executed before run_csvlens returns.
C20_TerminalRestored ==
    (pc \in {"main", "exited"} /\ raw_enabled) => "disable_raw_mode" \in calls
====
